---- MODULE Spec2Model ----
(***************************************************************************)
(* Model of src/query/verb.js of arquero-query: the Verb class (construct, *)
(* Verb.from, evaluate, toObject, toAST), the verb classes made by         *)
(* createVerb and the Verbs lookup table.                                  *)
(*                                                                         *)
(* JavaScript values are tagged records: every value has a field k naming  *)
(* its JavaScript type.  Objects carry their properties as a function from *)
(* property names to values, arrays carry a sequence of values.            *)
(***************************************************************************)
EXTENDS Integers, Sequences, FiniteSets, TLC

VARIABLES v, obj, w, call, ret, log

vars == <<v, obj, w, call, ret, log>>

\* ------------------------------------------------------------------------
\* Bounds of the model
\* ------------------------------------------------------------------------

\* longest list of table references given to concat/union/intersect/except
MaxTables == 2

\* longest list of expressions given to an expression-list parameter
MaxExprs == 2

\* ------------------------------------------------------------------------
\* JavaScript values
\* ------------------------------------------------------------------------

Undefined == [k |-> "undefined"]

Null == [k |-> "null"]

Str(s) == [k |-> "string", s |-> s]

Num(n) == [k |-> "number", n |-> n]

Bool(b) == [k |-> "boolean", b |-> b]

\* a function whose source text is src
Fn(src) == [k |-> "function", src |-> src]

\* a live table handle
Table(name) == [k |-> "table", name |-> name]

Arr(items) == [k |-> "array", items |-> items]

Obj(props) == [k |-> "object", props |-> props]

EmptyObj == Obj(<<>>)

isArray(x) == x.k = "array"

isObject(x) == x.k = "object"

isFunction(x) == x.k = "function"

isString(x) == x.k = "string"

has(x, key) == isObject(x) /\ key \in DOMAIN x.props

\* sequences over S of length 0..n
SeqsUpTo(S, n) == UNION {[1..m -> S] : m \in 0..n}

\* ------------------------------------------------------------------------
\* Parameter kinds (./constants)
\* ------------------------------------------------------------------------

Expr == "Expr"

ExprList == "ExprList"

ExprNumber == "ExprNumber"

ExprObject == "ExprObject"

JoinKeys == "JoinKeys"

JoinValues == "JoinValues"

Options == "Options"

OrderbyKeys == "OrderbyKeys"

TableRef == "TableRef"

TableRefList == "TableRefList"

\* ------------------------------------------------------------------------
\* Outcomes of a call
\* ------------------------------------------------------------------------

Ok == "ok"

TypeError == "TypeError"

UnknownVerbError == "UnknownVerbError"

UnresolvedTableError == "UnresolvedTableError"

MismatchedJoinArityError == "MismatchedJoinArityError"

\* ------------------------------------------------------------------------
\* ./util : normalizers
\* ------------------------------------------------------------------------

\* the canonical pair of equal-length left and right expression lists
LeftRight(l, r) == Obj([left |-> Arr(l), right |-> Arr(r)])

\* normalise a join-key or join-value input; [status, value]
normalizeJoin(input) ==
  IF input.k \in {"undefined", "null"} THEN [status |-> Ok, value |-> input]
  ELSE IF isObject(input) THEN [status |-> Ok, value |-> input]
  ELSE IF isArray(input) /\ Len(input.items) = 2
          /\ \A i \in 1..2 : isArray(input.items[i])
       THEN IF Len(input.items[1].items) = Len(input.items[2].items)
            THEN [status |-> Ok,
                  value |-> LeftRight(input.items[1].items, input.items[2].items)]
            ELSE [status |-> MismatchedJoinArityError, value |-> Undefined]
  ELSE IF isArray(input)
       THEN [status |-> Ok, value |-> LeftRight(input.items, input.items)]
  ELSE [status |-> Ok, value |-> LeftRight(<<input>>, <<input>>)]

joinKeys(input) == normalizeJoin(input)

joinValues(input) == normalizeJoin(input)

\* the column named by the string form "-name" of a descending key
Negated == [s \in {"-a", "-b"} |-> IF s = "-a" THEN "a" ELSE "b"]

OrderKey(e, direction) == Obj([expr |-> e, direction |-> Str(direction)])

\* normalise one ordering key
orderbyKey(key) ==
  IF has(key, "expr") /\ has(key, "direction") THEN key
  ELSE IF isString(key) /\ key.s \in DOMAIN Negated
       THEN OrderKey(Str(Negated[key.s]), "desc")
  ELSE OrderKey(key, "asc")

\* normalise an ordering-key input; [status, value]
orderbyKeys(input) ==
  IF input.k \in {"undefined", "null"} THEN [status |-> Ok, value |-> input]
  ELSE IF isArray(input)
       THEN [status |-> Ok,
             value |-> Arr([i \in 1..Len(input.items) |-> orderbyKey(input.items[i])])]
  ELSE [status |-> Ok, value |-> Arr(<<orderbyKey(input)>>)]

\* ------------------------------------------------------------------------
\* ./util : toObject, fromObject, getTable
\* ------------------------------------------------------------------------

RECURSIVE toObjectValue(_)
\* serialise one value to JSON-compatible data
toObjectValue(value) ==
  IF isFunction(value)
    THEN Obj([expr |-> Str(value.src), func |-> Bool(TRUE)])
  ELSE IF value.k = "table" THEN Str(value.name)
  ELSE IF isArray(value)
    THEN Arr([i \in 1..Len(value.items) |-> toObjectValue(value.items[i])])
  ELSE IF isObject(value)
    THEN Obj([p \in DOMAIN value.props |-> toObjectValue(value.props[p])])
  ELSE value

RECURSIVE fromObjectValue(_)
\* rebuild one value from JSON-compatible data
fromObjectValue(value) ==
  IF isArray(value)
    THEN Arr([i \in 1..Len(value.items) |-> fromObjectValue(value.items[i])])
  ELSE IF has(value, "expr") /\ has(value, "func")
    THEN Fn(value.props.expr.s)
  ELSE IF isObject(value)
    THEN Obj([p \in DOMAIN value.props |-> fromObjectValue(value.props[p])])
  ELSE value

\* the name a table reference is looked up under
refName(ref) == IF ref.k = "table" THEN Str(ref.name) ELSE ref

\* a catalog is the set of table names it knows; the table it returns
catalogLookup(catalog, name) ==
  IF isString(name) /\ name.s \in catalog THEN Table(name.s) ELSE Undefined

\* resolve one table reference; [status, value, log]
getTable(catalog, ref) ==
  LET name == refName(ref)
      t == catalogLookup(catalog, name)
  IN [status |-> IF t = Undefined THEN UnresolvedTableError ELSE Ok,
      value |-> t,
      log |-> <<[ev |-> "catalog", name |-> name]>>]

\* ------------------------------------------------------------------------
\* Verb classes and the Verbs lookup table
\* ------------------------------------------------------------------------

\* a schema entry { name, type, default, props }; an absent default or
\* props reads as undefined
Field(name, type) ==
  [name |-> name, type |-> type, default |-> Undefined, props |-> Undefined]

FieldDefault(name, type, default) ==
  [name |-> name, type |-> type, default |-> default, props |-> Undefined]

FieldProps(name, type, props) ==
  [name |-> name, type |-> type, default |-> Undefined, props |-> Obj(props)]

\* the class made by createVerb(name, schema): instances carry name, and
\* the class carries schema as a static property
createVerb(name, schema) == [k |-> "class", name |-> name, schema |-> schema]

Reify == createVerb("reify", Undefined)

Count == createVerb("count", Arr(<<Field("options", Options)>>))

Dedupe == createVerb("dedupe", Arr(<<FieldDefault("keys", ExprList, Arr(<<>>))>>))

Derive == createVerb("derive", Arr(<<Field("values", ExprObject)>>))

Filter == createVerb("filter", Arr(<<Field("criteria", ExprObject)>>))

Groupby == createVerb("groupby", Arr(<<Field("keys", ExprList)>>))

Orderby == createVerb("orderby", Arr(<<Field("keys", OrderbyKeys)>>))

Rollup == createVerb("rollup", Arr(<<Field("values", ExprObject)>>))

Sample == createVerb("sample",
  Arr(<<Field("size", ExprNumber),
    FieldProps("options", Options, [weight |-> Str(Expr)])>>))

Select == createVerb("select", Arr(<<Field("columns", ExprList)>>))

Ungroup == createVerb("ungroup", Undefined)

Unorder == createVerb("unorder", Undefined)

Fold == createVerb("fold",
  Arr(<<Field("values", ExprList), Field("options", Options)>>))

Pivot == createVerb("pivot",
  Arr(<<Field("keys", ExprList), Field("values", ExprList),
    Field("options", Options)>>))

Spread == createVerb("spread",
  Arr(<<Field("values", ExprList), Field("options", Options)>>))

Unroll == createVerb("unroll",
  Arr(<<Field("values", ExprList),
    FieldProps("options", Options, [drop |-> Str(ExprList)])>>))

Lookup == createVerb("lookup",
  Arr(<<Field("table", TableRef), Field("on", JoinKeys),
    Field("values", ExprList)>>))

Join == createVerb("join",
  Arr(<<Field("table", TableRef), Field("on", JoinKeys),
    Field("values", JoinValues), Field("options", Options)>>))

Cross == createVerb("cross",
  Arr(<<Field("table", TableRef), Field("values", JoinValues),
    Field("options", Options)>>))

Semijoin == createVerb("semijoin",
  Arr(<<Field("table", TableRef), Field("on", JoinKeys)>>))

Antijoin == createVerb("antijoin",
  Arr(<<Field("table", TableRef), Field("on", JoinKeys)>>))

Concat == createVerb("concat", Arr(<<Field("tables", TableRefList)>>))

Union == createVerb("union", Arr(<<Field("tables", TableRefList)>>))

Intersect == createVerb("intersect", Arr(<<Field("tables", TableRefList)>>))

Except == createVerb("except", Arr(<<Field("tables", TableRefList)>>))

\* every verb class the module defines
VerbClasses ==
  {Reify, Count, Dedupe, Derive, Filter, Groupby, Orderby, Rollup, Sample,
   Select, Ungroup, Unorder, Fold, Pivot, Spread, Unroll, Lookup, Join,
   Cross, Semijoin, Antijoin, Concat, Union, Intersect, Except}

\* the own properties of the Verbs object
Verbs ==
  [count |-> Count, dedupe |-> Dedupe, derive |-> Derive, filter |-> Filter,
   groupby |-> Groupby, orderby |-> Orderby, rollup |-> Rollup,
   sample |-> Sample, select |-> Select, ungroup |-> Ungroup,
   unorder |-> Unorder, fold |-> Fold, pivot |-> Pivot, spread |-> Spread,
   unroll |-> Unroll, lookup |-> Lookup, join |-> Join, cross |-> Cross,
   semijoin |-> Semijoin, antijoin |-> Antijoin, concat |-> Concat,
   union |-> Union, intersect |-> Intersect, except |-> Except]

\* the Object constructor, found through the prototype of Verbs
ObjectConstructor == [k |-> "builtin", name |-> "Object", constructs |-> TRUE]

\* Object.prototype.toString, found through the prototype of Verbs
ObjectToString == [k |-> "builtin", name |-> "toString", constructs |-> FALSE]

\* Verbs[key]: an own property, else a property inherited from
\* Object.prototype, else undefined
VerbsGet(key) ==
  IF isString(key) /\ key.s \in DOMAIN Verbs THEN Verbs[key.s]
  ELSE IF key = Str("constructor") THEN ObjectConstructor
  ELSE IF key = Str("toString") THEN ObjectToString
  ELSE Undefined

\* Type.schema || []
schemaOf(Type) ==
  IF Type.k = "class" /\ Type.schema # Undefined THEN Type.schema.items
  ELSE <<>>

\* ------------------------------------------------------------------------
\* class Verb
\* ------------------------------------------------------------------------

isVerb(x) == x.k = "verb"

\* params[index], undefined beyond the end of the array
paramAt(params, index) ==
  IF index <= Len(params) THEN params[index] ELSE Undefined

\* the normalised parameter of one field; [status, value]
normalized(type, param) ==
  IF type = JoinKeys THEN joinKeys(param)
  ELSE IF type = JoinValues THEN joinValues(param)
  ELSE IF type = OrderbyKeys THEN orderbyKeys(param)
  ELSE [status |-> Ok, value |-> param]

\* stored, without the schema default
stored_asGiven(value, s) == value

\* stored, with the default taking the place of null as well
stored_nullish(value, s) ==
  IF value # Undefined /\ value # Null THEN value ELSE s.default

\* the value assigned to this[s.name]
stored(value, s) == IF value # Undefined THEN value ELSE s.default

\* new Verb(verb, schema, params); [status, value]
construct(verb, schema, params) ==
  LET sch == IF schema = Undefined THEN <<>> ELSE schema.items
      n(i) == normalized(sch[i].type, paramAt(params, i))
      failed == {i \in 1..Len(sch) : n(i).status # Ok}
      first == CHOOSE i \in failed : \A j \in failed : i <= j
      names == {sch[i].name : i \in 1..Len(sch)}
      at(name) == CHOOSE i \in 1..Len(sch) :
                    /\ sch[i].name = name
                    /\ \A j \in 1..Len(sch) : sch[j].name = name => j <= i
  IN IF failed # {}
       THEN [status |-> n(first).status, value |-> Undefined]
       ELSE [status |-> Ok,
             value |-> [k |-> "verb", verb |-> verb, schema |-> sch,
                        fields |-> [name \in names |->
                                     stored(n(at(name)).value, sch[at(name)])]]]

\* new Type(...params) for a class made by createVerb
new(Type, params) == construct(Type.name, Type.schema, params)

\* Verb.from, building a bare Verb when no class is registered
from_lenient(object) ==
  LET key == IF has(object, "verb") THEN object.props.verb ELSE Undefined
      Type == VerbsGet(key)
      sch == schemaOf(Type)
      params == [i \in 1..Len(sch) |->
                  fromObjectValue(IF has(object, sch[i].name)
                                  THEN object.props[sch[i].name]
                                  ELSE Undefined)]
  IN IF Type.k = "class" THEN new(Type, params)
     ELSE construct(IF isString(key) THEN key.s ELSE "undefined", Undefined, <<>>)

\* Verb.from(object); [status, value]
from(object) ==
  LET Type == VerbsGet(IF has(object, "verb") THEN object.props.verb
                       ELSE Undefined)
      sch == schemaOf(Type)
      params == [i \in 1..Len(sch) |->
                  fromObjectValue(IF has(object, sch[i].name)
                                  THEN object.props[sch[i].name]
                                  ELSE Undefined)]
  IN IF Type = Undefined THEN [status |-> TypeError, value |-> Undefined]
     ELSE IF Type.k = "class" THEN new(Type, params)
     ELSE IF Type.constructs THEN [status |-> Ok, value |-> EmptyObj]
     ELSE [status |-> TypeError, value |-> Undefined]

\* the table operation table[op](...args) and what it returns: the table
\* engine is outside the module, its answer is a function of the call
tableCall(table, op, args) ==
  [ev |-> "table", table |-> table, op |-> op, args |-> args]

tableResult(table, op, args) ==
  [k |-> "result", table |-> table, op |-> op, args |-> args]

RECURSIVE mapGetTable_skip(_, _, _)
\* mapGetTable, leaving out the references that do not resolve
mapGetTable_skip(catalog, items, i) ==
  IF i > Len(items) THEN [status |-> Ok, value |-> <<>>, log |-> <<>>]
  ELSE LET r == getTable(catalog, items[i])
           rest == mapGetTable_skip(catalog, items, i + 1)
       IN [status |-> Ok,
           value |-> (IF r.status = Ok THEN <<r.value>> ELSE <<>>) \o rest.value,
           log |-> r.log \o rest.log]

RECURSIVE mapGetTable(_, _, _)
\* value.map(t => getTable(catalog, t)) from element i on: a throw ends
\* the map; [status, value, log]
mapGetTable(catalog, items, i) ==
  IF i > Len(items) THEN [status |-> Ok, value |-> <<>>, log |-> <<>>]
  ELSE LET r == getTable(catalog, items[i])
       IN IF r.status # Ok
            THEN [status |-> r.status, value |-> <<>>, log |-> r.log]
            ELSE LET rest == mapGetTable(catalog, items, i + 1)
                 IN [status |-> rest.status,
                     value |-> <<r.value>> \o rest.value,
                     log |-> r.log \o rest.log]

\* evaluateParam, resolving a table-ref field only
evaluateParam_listAsStored(self, s, catalog) ==
  LET value == self.fields[s.name]
  IN IF s.type = TableRef THEN getTable(catalog, value)
     ELSE [status |-> Ok, value |-> value, log |-> <<>>]

\* evaluateParam, looking a table-ref field up a second time
evaluateParam_twice(self, s, catalog) ==
  LET value == self.fields[s.name]
  IN IF s.type = TableRef
       THEN LET r == getTable(catalog, value)
            IN [status |-> r.status, value |-> r.value, log |-> r.log \o r.log]
     ELSE IF s.type = TableRefList
       THEN IF isArray(value)
              THEN LET r == mapGetTable(catalog, value.items, 1)
                   IN [status |-> r.status, value |-> Arr(r.value),
                       log |-> r.log]
              ELSE [status |-> TypeError, value |-> Undefined, log |-> <<>>]
     ELSE [status |-> Ok, value |-> value, log |-> <<>>]

\* the argument evaluate computes for one schema entry; [status, value, log]
evaluateParam(self, s, catalog) ==
  LET value == self.fields[s.name]
  IN IF s.type = TableRef THEN getTable(catalog, value)
     ELSE IF s.type = TableRefList
       THEN IF isArray(value)
              THEN LET r == mapGetTable(catalog, value.items, 1)
                   IN [status |-> r.status, value |-> Arr(r.value),
                       log |-> r.log]
              ELSE [status |-> TypeError, value |-> Undefined, log |-> <<>>]
     ELSE [status |-> Ok, value |-> value, log |-> <<>>]

RECURSIVE evaluateParams(_, _, _)
\* this.schema.map(...) from entry i on; [status, value, log]
evaluateParams(self, catalog, i) ==
  IF i > Len(self.schema) THEN [status |-> Ok, value |-> <<>>, log |-> <<>>]
  ELSE LET r == evaluateParam(self, self.schema[i], catalog)
       IN IF r.status # Ok
            THEN [status |-> r.status, value |-> <<>>, log |-> r.log]
            ELSE LET rest == evaluateParams(self, catalog, i + 1)
                 IN [status |-> rest.status,
                     value |-> <<r.value>> \o rest.value,
                     log |-> r.log \o rest.log]

\* evaluate, keeping the resolved arguments in the fields of the verb
evaluate_caching(self, table, catalog) ==
  LET r == evaluateParams(self, catalog, 1)
      at(name) == CHOOSE i \in 1..Len(self.schema) : self.schema[i].name = name
  IN IF r.status # Ok
       THEN [self |-> self, status |-> r.status, value |-> Undefined,
             log |-> r.log]
       ELSE [self |-> [self EXCEPT !.fields =
                        [name \in DOMAIN self.fields |-> r.value[at(name)]]],
             status |-> Ok,
             value |-> tableResult(table, self.verb, r.value),
             log |-> r.log \o <<tableCall(table, self.verb, r.value)>>]

\* verb.evaluate(table, catalog); [self, status, value, log], self being
\* the verb as the call leaves it
evaluate(self, table, catalog) ==
  LET r == evaluateParams(self, catalog, 1)
  IN IF r.status # Ok
       THEN [self |-> self, status |-> r.status, value |-> Undefined,
             log |-> r.log]
       ELSE [self |-> self, status |-> Ok,
             value |-> tableResult(table, self.verb, r.value),
             log |-> r.log \o <<tableCall(table, self.verb, r.value)>>]

\* the property names of the object toObject and toAST build
objectKeys(self) ==
  {"verb"} \cup {self.schema[i].name : i \in 1..Len(self.schema)}

\* toObject, copying the field values as they are
toObject_raw(self) ==
  [self |-> self, status |-> Ok,
   value |-> Obj([p \in objectKeys(self) |->
                   IF p = "verb" THEN Str(self.verb) ELSE self.fields[p]]),
   log |-> <<>>]

\* verb.toObject(); [self, status, value, log]
toObject(self) ==
  [self |-> self, status |-> Ok,
   value |-> Obj([p \in objectKeys(self) |->
                   IF p = "verb" THEN Str(self.verb)
                   ELSE toObjectValue(self.fields[p])]),
   log |-> <<>>]

\* ------------------------------------------------------------------------
\* ./to-ast
\* ------------------------------------------------------------------------

ExprKinds == {Expr, ExprList, ExprNumber, ExprObject, JoinKeys, JoinValues,
              OrderbyKeys}

Literal(value) == Obj([type |-> Str("Literal"), value |-> value])

Column(name) == Obj([type |-> Str("Column"), name |-> name])

Parsed(src) == Obj([type |-> Str("Expression"), source |-> Str(src)])

RECURSIVE toASTValue(_, _, _)
\* the syntax tree of one field value of kind type with sub-kinds props
toASTValue(value, type, props) ==
  IF value.k \in {"undefined", "null"} THEN value
  ELSE IF isArray(value)
    THEN Arr([i \in 1..Len(value.items) |->
               toASTValue(value.items[i], type, props)])
  ELSE IF type \in {TableRef, TableRefList} THEN Literal(refName(value))
  ELSE IF type = Options /\ isObject(value)
    THEN Obj([p \in DOMAIN value.props |->
               IF has(props, p)
                 THEN toASTValue(value.props[p], props.props[p].s, Undefined)
                 ELSE Literal(value.props[p])])
  ELSE IF type \in ExprKinds /\ isFunction(value) THEN Parsed(value.src)
  ELSE IF type \in ExprKinds /\ isString(value) THEN Column(value)
  ELSE IF type \in ExprKinds /\ isObject(value)
    THEN Obj([p \in DOMAIN value.props |->
               IF p = "direction" THEN value.props[p]
               ELSE toASTValue(value.props[p], type, props)])
  ELSE Literal(value)

\* verb.toAST(); [self, status, value, log]
toAST(self) ==
  LET at(name) == CHOOSE i \in 1..Len(self.schema) : self.schema[i].name = name
  IN [self |-> self, status |-> Ok,
      value |-> Obj([p \in objectKeys(self) |->
                      IF p = "verb" THEN Str(self.verb)
                      ELSE toASTValue(self.fields[p], self.schema[at(p)].type,
                                      self.schema[at(p)].props)]),
      log |-> <<>>]

\* ------------------------------------------------------------------------
\* Inputs
\* ------------------------------------------------------------------------

ColA == Str("a")

ColB == Str("b")

FnA == Fn("d => d.a")

\* the names tables are registered under
TableNames == {"t1", "t2"}

\* a catalog knows any subset of the table names
Catalogs == SUBSET TableNames

\* the tables a verb is evaluated against
BaseTables == {Table("t0")}

TableRefInputs == {Str("t1"), Str("t2"), Table("t1")}

\* the values a caller may pass for a parameter of the given kind
ParamInputs(type) ==
  {Undefined, Null} \cup
  CASE type = TableRef -> TableRefInputs
    [] type = TableRefList ->
         {Arr(items) : items \in SeqsUpTo(TableRefInputs, MaxTables)}
    [] type = ExprList ->
         {Arr(items) : items \in SeqsUpTo({ColA, FnA}, MaxExprs)}
    [] type = ExprNumber -> {Num(1), FnA}
    [] type = ExprObject -> {Obj([x |-> FnA]), Obj([x |-> ColA])}
    [] type = Options ->
         {EmptyObj, Obj([weight |-> FnA]), Obj([drop |-> Arr(<<ColA>>)])}
    [] type \in {JoinKeys, JoinValues} ->
         {ColA, FnA, Arr(<<ColA, ColB>>),
          Arr(<<Arr(<<ColA>>), Arr(<<ColB>>)>>),
          Arr(<<Arr(<<ColA>>), Arr(<<ColA, ColB>>)>>)}
    [] type = OrderbyKeys ->
         {ColA, Arr(<<ColA, Str("-b")>>), Arr(<<FnA>>)}
    [] OTHER -> {}

RECURSIVE ArgsOfLength(_, _)
\* the argument lists of exactly m leading parameters of a schema
ArgsOfLength(sch, m) ==
  IF m = 0 THEN {<<>>}
  ELSE {Append(a, x) : a \in ArgsOfLength(sch, m - 1),
                       x \in ParamInputs(sch[m].type)}

\* the argument lists a caller may pass to the constructor of a class:
\* any number of leading parameters, the rest omitted
ArgLists(Type) ==
  UNION {ArgsOfLength(schemaOf(Type), m) : m \in 0..Len(schemaOf(Type))}

\* plain objects that reach Verb.from without coming from toObject
ForeignObjects ==
  {Obj([verb |-> Str(name)]) :
     name \in {"unknown_verb", "reify", "constructor", "toString", "dedupe"}}
  \cup {EmptyObj, Obj([verb |-> Str("concat"), tables |-> Arr(<<Str("t1")>>)])}

\* ------------------------------------------------------------------------
\* The state machine: one verb v from its construction on, the plain
\* object obj it was serialised to, and the verb w rebuilt by Verb.from.
\* call, ret and log hold the last call, its outcome and what it did to
\* its collaborators (catalog lookups and table operations, in order).
\* ------------------------------------------------------------------------

Init ==
  /\ v = Undefined
  /\ obj = Undefined
  /\ w = Undefined
  /\ call = [op |-> "init"]
  /\ ret = [status |-> Ok, value |-> Undefined]
  /\ log = <<>>

\* v = new Type(...args)
Construct(Type, args) ==
  /\ call.op = "init"
  /\ LET r == new(Type, args)
     IN /\ v' = r.value
        /\ ret' = r
  /\ call' = [op |-> "construct", Type |-> Type, args |-> args]
  /\ log' = <<>>
  /\ UNCHANGED <<obj, w>>

\* obj = v.toObject()
ToObject ==
  /\ isVerb(v)
  /\ LET r == toObject(v)
     IN /\ v' = r.self
        /\ obj' = r.value
        /\ ret' = [status |-> r.status, value |-> r.value]
        /\ log' = r.log
  /\ call' = [op |-> "toObject", target |-> "v"]
  /\ UNCHANGED w

\* v.toAST()
ToAST ==
  /\ isVerb(v)
  /\ LET r == toAST(v)
     IN /\ v' = r.self
        /\ ret' = [status |-> r.status, value |-> r.value]
        /\ log' = r.log
  /\ call' = [op |-> "toAST", target |-> "v"]
  /\ UNCHANGED <<obj, w>>

\* w = Verb.from(object), for the object v was serialised to or for an
\* object that arrives from elsewhere
From(object) ==
  /\ \/ isVerb(v) /\ isObject(obj) /\ object = obj
     \/ call.op = "init" /\ object \in ForeignObjects
  /\ LET r == from(object)
     IN /\ w' = r.value
        /\ ret' = r
  /\ call' = [op |-> "from", object |-> object]
  /\ log' = <<>>
  /\ UNCHANGED <<v, obj>>

\* v.evaluate(table, catalog) or w.evaluate(table, catalog)
Evaluate(target, table, catalog) ==
  /\ isVerb(IF target = "v" THEN v ELSE w)
  /\ LET r == evaluate(IF target = "v" THEN v ELSE w, table, catalog)
     IN /\ v' = IF target = "v" THEN r.self ELSE v
        /\ w' = IF target = "w" THEN r.self ELSE w
        /\ ret' = [status |-> r.status, value |-> r.value]
        /\ log' = r.log
  /\ call' = [op |-> "evaluate", target |-> target, table |-> table,
              catalog |-> catalog]
  /\ UNCHANGED obj

Next ==
  \/ \E Type \in VerbClasses : \E args \in ArgLists(Type) : Construct(Type, args)
  \/ ToObject
  \/ ToAST
  \/ \E object \in ForeignObjects \cup {obj} : From(object)
  \/ \E target \in {"v", "w"} : \E table \in BaseTables :
       \E catalog \in Catalogs : Evaluate(target, table, catalog)

Spec == Init /\ [][Next]_vars

\* ------------------------------------------------------------------------
\* Properties
\* ------------------------------------------------------------------------

\* the verb the last call was made on
target == IF call.op = "evaluate" /\ call.target = "w" THEN w ELSE v

\* the catalog lookups of the last call, in order
lookups == SelectSeq(log, LAMBDA e : e.ev = "catalog")

\* the table operations of the last call, in order
invocations == SelectSeq(log, LAMBDA e : e.ev = "table")

\* the last call was Verb.from on the object v.toObject() returns
rebuilt == call.op = "from" /\ isVerb(v) /\ call.object = toObject(v).value

\* the name under which the last call to Verb.from looked its class up
fromName == IF has(call.object, "verb") THEN call.object.props.verb ELSE Undefined

\* the last call was Verb.from on an object whose verb is no registered name
unregistered ==
  call.op = "from" /\ ~(isString(fromName) /\ fromName.s \in DOMAIN Verbs)

\* the argument a completed evaluate passes for one schema entry
resolved(self, s, catalog) ==
  LET value == self.fields[s.name]
  IN IF s.type = TableRef THEN catalogLookup(catalog, refName(value))
     ELSE IF s.type = TableRefList
       THEN Arr([i \in 1..Len(value.items) |->
                  catalogLookup(catalog, refName(value.items[i]))])
     ELSE value

RECURSIVE referenced(_, _)
\* the names evaluate looks up for the schema entries from i on, in order
referenced(self, i) ==
  IF i > Len(self.schema) THEN <<>>
  ELSE LET s == self.schema[i]
           value == self.fields[s.name]
           here == IF s.type = TableRef THEN <<refName(value)>>
                   ELSE IF s.type = TableRefList /\ isArray(value)
                     THEN [j \in 1..Len(value.items) |-> refName(value.items[j])]
                   ELSE <<>>
       IN here \o referenced(self, i + 1)

\* some table reference of the verb has no table in the catalog
unresolved(self, catalog) ==
  \E i \in 1..Len(referenced(self, 1)) :
    catalogLookup(catalog, referenced(self, 1)[i]) = Undefined

RECURSIVE JSONSafe(_)
\* value is made of JSON scalars (or undefined), arrays and records only
JSONSafe(value) ==
  IF value.k \in {"undefined", "null", "string", "number", "boolean"} THEN TRUE
  ELSE IF isArray(value)
    THEN \A i \in 1..Len(value.items) : JSONSafe(value.items[i])
  ELSE IF isObject(value)
    THEN \A p \in DOMAIN value.props : JSONSafe(value.props[p])
  ELSE FALSE

RECURSIVE holdsLive(_)
\* value holds a live table handle or a function somewhere
holdsLive(value) ==
  IF value.k \in {"table", "function"} THEN TRUE
  ELSE IF isArray(value)
    THEN \E i \in 1..Len(value.items) : holdsLive(value.items[i])
  ELSE IF isObject(value)
    THEN \E p \in DOMAIN value.props : holdsLive(value.props[p])
  ELSE FALSE

\* C1: the verb rebuilt by Verb.from from v.toObject() has the name of v
\* and, against every table and catalog, ends evaluate the way v does:
\* the same table operation with the same arguments, the same result.
C1_RoundTrip ==
  rebuilt =>
    /\ ret.status = Ok
    /\ isVerb(w)
    /\ w.verb = v.verb
    /\ \A table \in BaseTables : \A catalog \in Catalogs :
         LET a == evaluate(v, table, catalog)
             b == evaluate(w, table, catalog)
         IN /\ a.status = b.status
            /\ a.value = b.value
            /\ SelectSeq(a.log, LAMBDA e : e.ev = "table")
                 = SelectSeq(b.log, LAMBDA e : e.ev = "table")

\* C2 as stated: Verb.from on an object whose verb is no registered name
\* fails with UnknownVerbError and produces no verb.
C2_UnknownVerbError ==
  unregistered => ret.status = UnknownVerbError /\ ~isVerb(w)

\* C2 amended: Verb.from on an object whose verb is no registered name
\* never produces a verb; it fails with a TypeError, except for the name
\* "constructor", for which it returns an empty plain object.
C2_UnknownVerbFails ==
  unregistered =>
    /\ ~isVerb(w)
    /\ ~isVerb(ret.value)
    /\ IF fromName = Str("constructor")
         THEN ret.status = Ok /\ ret.value = EmptyObj
         ELSE ret.status = TypeError /\ ret.value = Undefined

C2_Witness ==
  /\ call.op = "from"
  /\ call.object = Obj([verb |-> Str("unknown_verb")])
  /\ ret.status = TypeError
  /\ w = Undefined

\* C3: after a construction with fewer arguments than the schema has
\* fields, every field whose argument was omitted holds its schema
\* default; Dedupe() has keys = [].
C3_OmittedDefaults ==
  (call.op = "construct" /\ ret.status = Ok) =>
    /\ \A i \in 1..Len(v.schema) :
         i > Len(call.args) => v.fields[v.schema[i].name] = v.schema[i].default
    /\ (call.Type = Dedupe /\ call.args = <<>>) => v.fields.keys = Arr(<<>>)

C3_Witness ==
  /\ call.op = "construct"
  /\ call.Type = Dedupe
  /\ call.args = <<>>
  /\ isVerb(v)
  /\ v.fields.keys = Arr(<<>>)

\* C4: an evaluate call that returns has invoked the table operation named
\* by the verb exactly once, as its last step, with one argument per schema
\* field in schema order: the catalog's table for a table-ref field, the
\* element-wise tables for a table-ref-list field, the stored value for
\* every other field; and it returns the result of that operation.
C4_EvaluateInvokes ==
  (call.op = "evaluate" /\ ret.status = Ok) =>
    LET args == [i \in 1..Len(target.schema) |->
                  resolved(target, target.schema[i], call.catalog)]
    IN /\ \A i \in 1..Len(target.schema) :
            target.schema[i].type = TableRefList
              => isArray(target.fields[target.schema[i].name])
       /\ invocations = <<tableCall(call.table, target.verb, args)>>
       /\ log[Len(log)].ev = "table"
       /\ ret.value = tableResult(call.table, target.verb, args)

C4_Witness ==
  /\ call.op = "evaluate"
  /\ ret.status = Ok
  /\ target.verb = "join"
  /\ Len(invocations) = 1
  /\ invocations[1].args[1] = Table("t1")
  /\ invocations[1].args[2] = LeftRight(<<ColA>>, <<ColB>>)

\* C5: toObject returns a record with verb equal to the verb name and
\* exactly one entry per schema field, holding only JSON scalars, arrays
\* and records: no live table handle and no function.
C5_ToObjectPlain ==
  call.op = "toObject" =>
    /\ ret.status = Ok
    /\ isObject(ret.value)
    /\ DOMAIN ret.value.props
         = {"verb"} \cup {v.schema[i].name : i \in 1..Len(v.schema)}
    /\ ret.value.props.verb = Str(v.verb)
    /\ JSONSafe(ret.value)
    /\ obj = ret.value

C5_Witness ==
  /\ call.op = "toObject"
  /\ v.verb = "join"
  /\ v.fields.table = Table("t1")
  /\ holdsLive(v.fields.on)
  /\ obj.props.table = Str("t1")

\* C6: evaluate, toObject and toAST leave the verb they are called on, and
\* every other verb, as they found it: name, schema and field values.
C6_ReadOnly ==
  [][call'.op \in {"evaluate", "toObject", "toAST"} => (v' = v /\ w' = w)]_vars

C6_Witness ==
  /\ call.op = "evaluate"
  /\ call.target = "w"
  /\ ret.status = Ok
  /\ Len(lookups) = 2
  /\ isVerb(v)

\* C7: the catalog is looked up during evaluate only. An evaluate call
\* that returns has looked up, in schema order, the name of each table-ref
\* field and of each element of each table-ref-list field, once each, and
\* nothing when the schema has no such field; a call that fails has made
\* some of those lookups, in the same order, and no other.
C7_CatalogLookups ==
  /\ call.op \in {"init", "construct", "from", "toObject", "toAST"}
       => lookups = <<>>
  /\ call.op = "evaluate" =>
       LET names == referenced(target, 1)
       IN /\ Len(lookups) <= Len(names)
          /\ \A i \in 1..Len(lookups) : lookups[i].name = names[i]
          /\ ret.status = Ok => Len(lookups) = Len(names)
          /\ (\A i \in 1..Len(target.schema) :
                target.schema[i].type \notin {TableRef, TableRefList})
               => lookups = <<>>

C7_Witness ==
  /\ call.op = "evaluate"
  /\ ret.status = Ok
  /\ target.verb = "concat"
  /\ Len(target.fields.tables.items) = 2
  /\ Len(lookups) = 2

\* C8: when the catalog has no table for the name of a table-ref field or
\* of an element of a table-ref-list field, evaluate fails with
\* UnresolvedTableError, invokes no table operation and returns nothing.
C8_UnresolvedTable ==
  (call.op = "evaluate" /\ unresolved(target, call.catalog)) =>
    /\ ret.status = UnresolvedTableError
    /\ invocations = <<>>
    /\ ret.value = Undefined

C8_Witness ==
  /\ call.op = "evaluate"
  /\ target.verb = "union"
  /\ isArray(target.fields.tables)
  /\ Len(target.fields.tables.items) = 2
  /\ ret.status = UnresolvedTableError
  /\ Len(lookups) = 2
  /\ invocations = <<>>

\* the value the constructor has after normalising the argument of field i
C9_value(i) ==
  LET type == v.schema[i].type
      param == paramAt(call.args, i)
  IN IF type = JoinKeys THEN joinKeys(param).value
     ELSE IF type = JoinValues THEN joinValues(param).value
     ELSE IF type = OrderbyKeys THEN orderbyKeys(param).value
     ELSE param

\* C9 as stated: each field holds the normalised argument, or the schema
\* default when that value is undefined or null.
C9_NullishDefault ==
  (call.op = "construct" /\ ret.status = Ok) =>
    \A i \in 1..Len(v.schema) :
      v.fields[v.schema[i].name] =
        IF C9_value(i) \in {Undefined, Null} THEN v.schema[i].default
        ELSE C9_value(i)

\* C9 amended: each field holds the normalised argument, or the schema
\* default when that value is undefined; null is stored as null.
C9_UndefinedDefault ==
  (call.op = "construct" /\ ret.status = Ok) =>
    \A i \in 1..Len(v.schema) :
      v.fields[v.schema[i].name] =
        IF C9_value(i) = Undefined THEN v.schema[i].default
        ELSE C9_value(i)

C9_Witness ==
  /\ call.op = "construct"
  /\ call.Type = Dedupe
  /\ call.args = <<Null>>
  /\ isVerb(v)
  /\ v.fields.keys = Null

\* C10: every verb class is registered in Verbs under the name its
\* instances carry, and Verb.from(v.toObject()) succeeds for every
\* instance v.
C10_RegistryComplete ==
  /\ (call.op = "construct" /\ ret.status = Ok)
       => VerbsGet(Str(v.verb)) = call.Type
  /\ rebuilt => (ret.status = Ok /\ isVerb(w))

====
